---- MODULE Spec2Model ----
(***************************************************************************)
(* HID keyboard of scrcpy (app/src/hid_keyboard.c): SDL key events are     *)
(* turned into 8-byte USB HID boot-keyboard reports and pushed to the AOA  *)
(* transport.  Every handler of the file is one atomic action (the code is *)
(* synchronous and single-threaded).  The outcomes of malloc and of the    *)
(* transport calls are inputs of the actions.                              *)
(***************************************************************************)
EXTENDS Integers, Sequences, FiniteSets, TLC

\* ------------------------------------------------------------------------
\* Program constants
\* ------------------------------------------------------------------------
HID_KEYBOARD_ACCESSORY_ID == 1
HID_KEYBOARD_MODIFIER_NONE == 0
HID_KEYBOARD_MODIFIER_LEFT_CONTROL == 1
HID_KEYBOARD_MODIFIER_LEFT_SHIFT == 2
HID_KEYBOARD_MODIFIER_LEFT_ALT == 4
HID_KEYBOARD_MODIFIER_LEFT_GUI == 8
HID_KEYBOARD_MODIFIER_RIGHT_CONTROL == 16
HID_KEYBOARD_MODIFIER_RIGHT_SHIFT == 32
HID_KEYBOARD_MODIFIER_RIGHT_ALT == 64
HID_KEYBOARD_MODIFIER_RIGHT_GUI == 128
HID_KEYBOARD_INDEX_MODIFIER == 0
HID_KEYBOARD_INDEX_KEYS == 2
HID_KEYBOARD_MAX_KEYS == 6
HID_KEYBOARD_EVENT_SIZE == 2 + HID_KEYBOARD_MAX_KEYS
HID_KEYBOARD_RESERVED == 0
HID_KEYBOARD_ERROR_ROLL_OVER == 1
\* size of the key-state table (the descriptor's usage maximum is 101)
HID_KEYBOARD_KEYS == 102
\* first and last modifier scancode (the descriptor's usages 0xE0..0xE7)
SDL_SCANCODE_LCTRL == 224
SDL_SCANCODE_RGUI == 231
SDL_SCANCODE_LSHIFT == SDL_SCANCODE_LCTRL + 1
\* the scancode of the key 'a'
SDL_SCANCODE_A == 4

\* ------------------------------------------------------------------------
\* Bounds of the model
\* ------------------------------------------------------------------------
\* largest value of the repeat field of an event (any non-zero value marks an
\* auto-repeat)
MaxRepeat == 1

\* scancodes of the key-state table that key events are drawn from: the two
\* ends of the table, the code equal to the roll-over byte, and enough others
\* to hold more than HID_KEYBOARD_MAX_KEYS keys with one left unpressed
TableCodes == {0, 1, SDL_SCANCODE_A, 5, 6, 7, 8, HID_KEYBOARD_KEYS - 1}
\* the table scancodes the dispatch events are drawn from
FewTableCodes == {1, SDL_SCANCODE_A, 5, HID_KEYBOARD_KEYS - 1}
\* modifier scancodes events are drawn from
ModifierCodes == {SDL_SCANCODE_LCTRL, SDL_SCANCODE_LSHIFT, SDL_SCANCODE_RGUI}
\* scancodes that are neither in the table nor modifiers
OtherCodes == {HID_KEYBOARD_KEYS, SDL_SCANCODE_LCTRL - 1, SDL_SCANCODE_RGUI + 1}

\* SDL_Keymod values events are drawn from (sets of KMOD_ flags)
KeyMods == {{}, {"KMOD_LSHIFT"}}
MoreKeyMods == KeyMods \cup {{"KMOD_LCTRL", "KMOD_RALT", "KMOD_NUM"}}

EventTypes == {"SDL_KEYDOWN", "SDL_KEYUP"}
\* SDL_KeyboardEvent
EventsOf(repeats, scancodes, mods) ==
    [type : EventTypes, repeat : repeats, scancode : scancodes, mod : mods]
\* events of every kind, on few keys
DispatchEvents ==
    EventsOf(0..MaxRepeat, FewTableCodes \cup ModifierCodes \cup OtherCodes, MoreKeyMods)
\* the flags of the 8 modifier keys, in the order of the bits of byte 0
ModifierFlags ==
    <<"KMOD_LCTRL", "KMOD_LSHIFT", "KMOD_LALT", "KMOD_LGUI",
      "KMOD_RCTRL", "KMOD_RSHIFT", "KMOD_RALT", "KMOD_RGUI">>
\* every combination of the flags of the modifier keys, and some with the
\* flags of the lock keys
AllKeyMods ==
    (SUBSET {ModifierFlags[i] : i \in 1..Len(ModifierFlags)})
        \cup {{"KMOD_NUM"}, {"KMOD_CAPS", "KMOD_LSHIFT"}, {"KMOD_NUM", "KMOD_RGUI"}}
\* events of one key and of one modifier key under every combination of flags
ModEvents == EventsOf({0}, {SDL_SCANCODE_A, SDL_SCANCODE_LSHIFT}, AllKeyMods)

\* presses and releases of enough keys to exceed the report
KeyEvents == EventsOf({0}, TableCodes \cup {SDL_SCANCODE_LSHIFT}, KeyMods)

NoEvent == [type |-> "none", repeat |-> 0, scancode |-> 0, mod |-> {}]
\* malloc returned NULL: a buffer of no bytes
NULL == << >>
\* a struct hid_event none of whose fields has been assigned (a field never
\* assigned is never read by the code; it is shown as 0, or as no bytes)
NoHidEvent == [from_accessory_id |-> 0, buffer |-> << >>, size |-> 0]

VARIABLES
    keys,        \* kb->keys: the set of the indices i with kb->keys[i] true
    aoa,         \* kb->aoa has been assigned
    ops,         \* kb->key_processor.ops points to the key-processing operations
    call,        \* the last handler called, its event and its return value
    hid_event,   \* the local struct hid_event of the last process_key at its return
    transport,   \* the calls the last handler made to the transport, in order
    owner,       \* what became of the report buffer of the last call: "not allocated"
                 \* (malloc not called), "malloc failed", "transport" (pushed with
                 \* success), "nobody" (allocated, push failed, not freed)
    again,       \* the call before the last one was process_key with the same
                 \* event, and it built a report
    phantom      \* the last report built before the last call had its six key
                 \* slots set to HID_KEYBOARD_ERROR_ROLL_OVER by the memset

vars == <<keys, aoa, ops, call, hid_event, transport, owner, again, phantom>>

\* ------------------------------------------------------------------------
\* The report descriptor
\* ------------------------------------------------------------------------
keyboard_report_desc ==
    << 5, 1, 9, 6, 161, 1,
       5, 7, 25, 224, 41, 231, 21, 0, 37, 1, 117, 1, 149, 8, 129, 2,
       117, 8, 149, 1, 129, 1,
       5, 8, 25, 1, 41, 5, 117, 1, 149, 5, 145, 2,
       117, 3, 149, 1, 145, 1,
       5, 7, 25, 0, 41, HID_KEYBOARD_KEYS - 1, 21, 0, 37, HID_KEYBOARD_KEYS - 1,
       117, 8, 149, HID_KEYBOARD_MAX_KEYS, 129, 0,
       192 >>

\* ------------------------------------------------------------------------
\* Report encoding
\* ------------------------------------------------------------------------
\* a report buffer is a sequence of bytes; C index i is TLA+ index i + 1
SetByte(buffer, i, b) == [buffer EXCEPT ![i + 1] = b]

\* mutant: the memset starts one byte early, at the reserved byte
MemsetKeys_FromReserved(buffer, b) ==
    [j \in 1..Len(buffer) |->
        IF j - 1 >= HID_KEYBOARD_INDEX_KEYS - 1
           /\ j - 1 < HID_KEYBOARD_INDEX_KEYS + HID_KEYBOARD_MAX_KEYS
        THEN b ELSE buffer[j]]

\* memset(&buffer[HID_KEYBOARD_INDEX_KEYS], b, HID_KEYBOARD_MAX_KEYS)
MemsetKeys(buffer, b) ==
    [j \in 1..Len(buffer) |->
        IF j - 1 >= HID_KEYBOARD_INDEX_KEYS
           /\ j - 1 < HID_KEYBOARD_INDEX_KEYS + HID_KEYBOARD_MAX_KEYS
        THEN b ELSE buffer[j]]

\* the buffer of a successful malloc, as initialised
create_hid_keyboard_event ==
    MemsetKeys(
        SetByte(SetByte([j \in 1..HID_KEYBOARD_EVENT_SIZE |-> 0],
                        HID_KEYBOARD_INDEX_MODIFIER, HID_KEYBOARD_MODIFIER_NONE),
                1, HID_KEYBOARD_RESERVED),
        0)

ModBit(mod, flag, bit) == IF flag \in mod THEN bit ELSE 0

\* mutant: KMOD_RSHIFT sets the bit of the left shift key
sdl_keymod_to_hid_modifiers_RShiftAsLShift(mod) ==
      ModBit(mod, "KMOD_LCTRL", HID_KEYBOARD_MODIFIER_LEFT_CONTROL)
    + (IF "KMOD_LSHIFT" \in mod \/ "KMOD_RSHIFT" \in mod
       THEN HID_KEYBOARD_MODIFIER_LEFT_SHIFT ELSE 0)
    + ModBit(mod, "KMOD_LALT", HID_KEYBOARD_MODIFIER_LEFT_ALT)
    + ModBit(mod, "KMOD_LGUI", HID_KEYBOARD_MODIFIER_LEFT_GUI)
    + ModBit(mod, "KMOD_RCTRL", HID_KEYBOARD_MODIFIER_RIGHT_CONTROL)
    + ModBit(mod, "KMOD_RALT", HID_KEYBOARD_MODIFIER_RIGHT_ALT)
    + ModBit(mod, "KMOD_RGUI", HID_KEYBOARD_MODIFIER_RIGHT_GUI)

\* the flags are distinct bits, so the |= of the code is a sum
sdl_keymod_to_hid_modifiers(mod) ==
      ModBit(mod, "KMOD_LCTRL", HID_KEYBOARD_MODIFIER_LEFT_CONTROL)
    + ModBit(mod, "KMOD_LSHIFT", HID_KEYBOARD_MODIFIER_LEFT_SHIFT)
    + ModBit(mod, "KMOD_LALT", HID_KEYBOARD_MODIFIER_LEFT_ALT)
    + ModBit(mod, "KMOD_LGUI", HID_KEYBOARD_MODIFIER_LEFT_GUI)
    + ModBit(mod, "KMOD_RCTRL", HID_KEYBOARD_MODIFIER_RIGHT_CONTROL)
    + ModBit(mod, "KMOD_RSHIFT", HID_KEYBOARD_MODIFIER_RIGHT_SHIFT)
    + ModBit(mod, "KMOD_RALT", HID_KEYBOARD_MODIFIER_RIGHT_ALT)
    + ModBit(mod, "KMOD_RGUI", HID_KEYBOARD_MODIFIER_RIGHT_GUI)

\* mutant: kb->keys[scancode] = !kb->keys[scancode]
UpdateKeys_Toggle(k, event) ==
    IF event.scancode < HID_KEYBOARD_KEYS
    THEN IF event.scancode \in k
         THEN k \ {event.scancode}
         ELSE k \cup {event.scancode}
    ELSE k

\* mutant: a release is dropped while more than HID_KEYBOARD_MAX_KEYS keys
\* are pressed
UpdateKeys_ReleaseDroppedInRollOver(k, event) ==
    IF event.scancode < HID_KEYBOARD_KEYS
    THEN IF event.type = "SDL_KEYDOWN"
         THEN k \cup {event.scancode}
         ELSE IF Cardinality(k) > HID_KEYBOARD_MAX_KEYS
              THEN k
              ELSE k \ {event.scancode}
    ELSE k

\* mutant: the assignment is not guarded by scancode < HID_KEYBOARD_KEYS
UpdateKeys_NoRangeCheck(k, event) ==
    IF event.type = "SDL_KEYDOWN"
    THEN k \cup {event.scancode}
    ELSE k \ {event.scancode}

\* mutant: kb->keys[scancode] = true, whatever the type of the event
UpdateKeys_AlwaysPressed(k, event) ==
    IF event.scancode < HID_KEYBOARD_KEYS
    THEN k \cup {event.scancode}
    ELSE k

\* kb->keys[scancode] = (event->type == SDL_KEYDOWN), for a scancode of the table
UpdateKeys(k, event) ==
    IF event.scancode < HID_KEYBOARD_KEYS
    THEN IF event.type = "SDL_KEYDOWN"
         THEN k \cup {event.scancode}
         ELSE k \ {event.scancode}
    ELSE k

\* mutant: keys_pressed_count is not incremented
RECURSIVE ScanKeys_NoIncrement(_, _, _, _)
ScanKeys_NoIncrement(k, i, buffer, keys_pressed_count) ==
    LET pressed == {j \in k : j >= i /\ j < HID_KEYBOARD_KEYS}
    IN  IF pressed = {} THEN buffer
        ELSE LET n == CHOOSE j \in pressed : \A x \in pressed : j <= x
             IN  IF keys_pressed_count >= HID_KEYBOARD_MAX_KEYS
                 THEN MemsetKeys(buffer, HID_KEYBOARD_ERROR_ROLL_OVER)
                 ELSE ScanKeys_NoIncrement(k, n + 1,
                               SetByte(buffer,
                                       HID_KEYBOARD_INDEX_KEYS + keys_pressed_count, n),
                               keys_pressed_count)

\* mutant: the phantom state is entered one key late (> for >=); the key that
\* finds no slot is dropped
RECURSIVE ScanKeys_LateRollOver(_, _, _, _)
ScanKeys_LateRollOver(k, i, buffer, keys_pressed_count) ==
    LET pressed == {j \in k : j >= i /\ j < HID_KEYBOARD_KEYS}
    IN  IF pressed = {} THEN buffer
        ELSE LET n == CHOOSE j \in pressed : \A x \in pressed : j <= x
             IN  IF keys_pressed_count > HID_KEYBOARD_MAX_KEYS
                 THEN MemsetKeys(buffer, HID_KEYBOARD_ERROR_ROLL_OVER)
                 ELSE ScanKeys_LateRollOver(k, n + 1,
                               IF keys_pressed_count < HID_KEYBOARD_MAX_KEYS
                               THEN SetByte(buffer,
                                            HID_KEYBOARD_INDEX_KEYS + keys_pressed_count, n)
                               ELSE buffer,
                               keys_pressed_count + 1)

\* the loop "for (i = 0; i < HID_KEYBOARD_KEYS; ++i)" from index i on, with
\* keys_pressed_count keys written so far.  An iteration whose kb->keys[i] is
\* false changes nothing, so the loop is taken from one pressed index to the
\* next.
RECURSIVE ScanKeys(_, _, _, _)
ScanKeys(k, i, buffer, keys_pressed_count) ==
    LET pressed == {j \in k : j >= i /\ j < HID_KEYBOARD_KEYS}
    IN  IF pressed = {} THEN buffer
        ELSE LET n == CHOOSE j \in pressed : \A x \in pressed : j <= x
             IN  IF keys_pressed_count >= HID_KEYBOARD_MAX_KEYS
                 THEN MemsetKeys(buffer, HID_KEYBOARD_ERROR_ROLL_OVER)
                 ELSE ScanKeys(k, n + 1,
                               SetByte(buffer,
                                       HID_KEYBOARD_INDEX_KEYS + keys_pressed_count, n),
                               keys_pressed_count + 1)

\* result: whether a report was built, the key-state table, the hid_event,
\* and what malloc did
convert_hid_keyboard_event(k, he, event, mallocOk) ==
    IF ~mallocOk
    THEN [ok |-> FALSE, keys |-> k, hid_event |-> [he EXCEPT !.buffer = NULL],
          malloc |-> "failed"]
    ELSE LET modifiers == sdl_keymod_to_hid_modifiers(event.mod)
             k2 == UpdateKeys(k, event)
             b1 == SetByte(create_hid_keyboard_event,
                           HID_KEYBOARD_INDEX_MODIFIER, modifiers)
         IN  [ok |-> TRUE, keys |-> k2,
              hid_event |-> [he EXCEPT !.buffer = ScanKeys(k2, 0, b1, 0),
                                       !.size = HID_KEYBOARD_EVENT_SIZE],
              malloc |-> "ok"]

\* mutant: the upper end of the modifier range is not tested
scancode_is_modifier_NoUpperBound(scancode) ==
    scancode >= SDL_SCANCODE_LCTRL

scancode_is_modifier(scancode) ==
    scancode >= SDL_SCANCODE_LCTRL /\ scancode <= SDL_SCANCODE_RGUI

\* mutant: the events of the modifier keys are ignored
hid_keyboard_convert_event_TableOnly(k, event, mallocOk) ==
    LET he == [NoHidEvent EXCEPT !.from_accessory_id = HID_KEYBOARD_ACCESSORY_ID]
    IN  IF event.scancode < HID_KEYBOARD_KEYS
        THEN convert_hid_keyboard_event(k, he, event, mallocOk)
        ELSE [ok |-> FALSE, keys |-> k, hid_event |-> he, malloc |-> "not called"]

hid_keyboard_convert_event(k, event, mallocOk) ==
    LET he == [NoHidEvent EXCEPT !.from_accessory_id = HID_KEYBOARD_ACCESSORY_ID]
    IN  IF event.scancode < HID_KEYBOARD_KEYS \/ scancode_is_modifier(event.scancode)
        THEN convert_hid_keyboard_event(k, he, event, mallocOk)
        ELSE [ok |-> FALSE, keys |-> k, hid_event |-> he, malloc |-> "not called"]

\* ------------------------------------------------------------------------
\* Handlers
\* ------------------------------------------------------------------------
PushCall(he) == [fn |-> "aoa_push_hid_event", hid_event |-> he]
\* mutant: the size of a pointer is passed for the length of the descriptor
SetupCall_PointerSize ==
    [fn |-> "aoa_setup_hid", accessory_id |-> HID_KEYBOARD_ACCESSORY_ID,
     desc |-> keyboard_report_desc, size |-> 2 * 4]

SetupCall == [fn |-> "aoa_setup_hid", accessory_id |-> HID_KEYBOARD_ACCESSORY_ID,
              desc |-> keyboard_report_desc, size |-> Len(keyboard_report_desc)]
UnregisterCall == [fn |-> "aoa_unregister_hid",
                   accessory_id |-> HID_KEYBOARD_ACCESSORY_ID]

\* mutant: the repeat flag is not tested
ProcessKey_RepeatHandled(k, event, mallocOk, pushOk) ==
    LET r == hid_keyboard_convert_event(k, event, mallocOk)
    IN  IF r.ok
        THEN [keys |-> r.keys, hid_event |-> r.hid_event,
              transport |-> <<PushCall(r.hid_event)>>,
              owner |-> IF pushOk THEN "transport" ELSE "nobody"]
        ELSE [keys |-> r.keys, hid_event |-> r.hid_event,
              transport |-> <<>>,
              owner |-> IF r.malloc = "failed"
                        THEN "malloc failed" ELSE "not allocated"]

\* mutant: a failed push is tried a second time
ProcessKey_Retry(k, event, mallocOk, pushOk) ==
    IF event.repeat # 0
    THEN [keys |-> k, hid_event |-> NoHidEvent, transport |-> <<>>,
          owner |-> "not allocated"]
    ELSE LET r == hid_keyboard_convert_event(k, event, mallocOk)
         IN  IF r.ok
             THEN [keys |-> r.keys, hid_event |-> r.hid_event,
                   transport |-> IF pushOk
                                 THEN <<PushCall(r.hid_event)>>
                                 ELSE <<PushCall(r.hid_event), PushCall(r.hid_event)>>,
                   owner |-> IF pushOk THEN "transport" ELSE "nobody"]
             ELSE [keys |-> r.keys, hid_event |-> r.hid_event,
                   transport |-> <<>>,
                   owner |-> IF r.malloc = "failed"
                             THEN "malloc failed" ELSE "not allocated"]

\* mutant: the table is put back as it was when the push fails
ProcessKey_Rollback(k, event, mallocOk, pushOk) ==
    IF event.repeat # 0
    THEN [keys |-> k, hid_event |-> NoHidEvent, transport |-> <<>>,
          owner |-> "not allocated"]
    ELSE LET r == hid_keyboard_convert_event(k, event, mallocOk)
         IN  IF r.ok
             THEN [keys |-> IF pushOk THEN r.keys ELSE k,
                   hid_event |-> r.hid_event,
                   transport |-> <<PushCall(r.hid_event)>>,
                   owner |-> IF pushOk THEN "transport" ELSE "nobody"]
             ELSE [keys |-> r.keys, hid_event |-> r.hid_event,
                   transport |-> <<>>,
                   owner |-> IF r.malloc = "failed"
                             THEN "malloc failed" ELSE "not allocated"]

\* what process_key leaves behind: the table, the hid_event, the transport
\* calls made, and the owner of the buffer it allocated
ProcessKey(k, event, mallocOk, pushOk) ==
    IF event.repeat # 0
    THEN [keys |-> k, hid_event |-> NoHidEvent, transport |-> <<>>,
          owner |-> "not allocated"]
    ELSE LET r == hid_keyboard_convert_event(k, event, mallocOk)
         IN  IF r.ok
             THEN [keys |-> r.keys, hid_event |-> r.hid_event,
                   transport |-> <<PushCall(r.hid_event)>>,
                   owner |-> IF pushOk THEN "transport" ELSE "nobody"]
             ELSE [keys |-> r.keys, hid_event |-> r.hid_event,
                   transport |-> <<>>,
                   owner |-> IF r.malloc = "failed"
                             THEN "malloc failed" ELSE "not allocated"]

\* whether the last report built so far is one whose key slots were all
\* overwritten with the roll-over code: that of the last call if it built one
LastPhantom ==
    IF hid_event.size = HID_KEYBOARD_EVENT_SIZE
    THEN \A j \in 1..HID_KEYBOARD_MAX_KEYS :
             hid_event.buffer[HID_KEYBOARD_INDEX_KEYS + j] = HID_KEYBOARD_ERROR_ROLL_OVER
    ELSE phantom

sc_key_processor_process_key(event, mallocOk, pushOk) ==
    /\ ops
    /\ LET r == ProcessKey(keys, event, mallocOk, pushOk)
       IN  /\ keys' = r.keys
           /\ hid_event' = r.hid_event
           /\ transport' = r.transport
           /\ owner' = r.owner
    /\ call' = [op |-> "process_key", event |-> event, ret |-> "void"]
    /\ again' = (/\ call.op = "process_key"
                 /\ call.event = event
                 /\ hid_event.size = HID_KEYBOARD_EVENT_SIZE)
    /\ phantom' = LastPhantom
    /\ UNCHANGED <<aoa, ops>>

sc_key_processor_process_text ==
    /\ ops
    /\ call' = [op |-> "process_text", event |-> NoEvent, ret |-> "void"]
    /\ hid_event' = NoHidEvent
    /\ transport' = <<>>
    /\ again' = FALSE
    /\ phantom' = LastPhantom
    /\ owner' = "not allocated"
    /\ UNCHANGED <<keys, aoa, ops>>

\* mutant: the failure of aoa_setup_hid is logged but init goes on
hid_keyboard_init_FailureIgnored(setupOk) ==
    /\ aoa' = TRUE
    /\ transport' = <<SetupCall>>
    /\ keys' = {}
    /\ ops' = TRUE
    /\ call' = [op |-> "init", event |-> NoEvent, ret |-> "true"]
    /\ hid_event' = NoHidEvent
    /\ again' = FALSE
    /\ phantom' = LastPhantom
    /\ owner' = "not allocated"

\* mutant: the table is not reset
hid_keyboard_init_NoReset(setupOk) ==
    /\ aoa' = TRUE
    /\ transport' = <<SetupCall>>
    /\ IF setupOk
       THEN /\ ops' = TRUE
            /\ UNCHANGED keys
       ELSE UNCHANGED <<keys, ops>>
    /\ call' = [op |-> "init", event |-> NoEvent, ret |-> IF setupOk THEN "true" ELSE "false"]
    /\ hid_event' = NoHidEvent
    /\ again' = FALSE
    /\ phantom' = LastPhantom
    /\ owner' = "not allocated"

hid_keyboard_init(setupOk) ==
    /\ aoa' = TRUE
    /\ transport' = <<SetupCall>>
    /\ IF setupOk
       THEN /\ keys' = {}
            /\ ops' = TRUE
       ELSE UNCHANGED <<keys, ops>>
    /\ call' = [op |-> "init", event |-> NoEvent, ret |-> IF setupOk THEN "true" ELSE "false"]
    /\ hid_event' = NoHidEvent
    /\ again' = FALSE
    /\ phantom' = LastPhantom
    /\ owner' = "not allocated"

hid_keyboard_destroy(unregisterOk) ==
    /\ aoa
    /\ transport' = <<UnregisterCall>>
    /\ call' = [op |-> "destroy", event |-> NoEvent, ret |-> "void"]
    /\ hid_event' = NoHidEvent
    /\ again' = FALSE
    /\ phantom' = LastPhantom
    /\ owner' = "not allocated"
    /\ UNCHANGED <<keys, aoa, ops>>

\* ------------------------------------------------------------------------
\* Specification
\* ------------------------------------------------------------------------
\* the struct is not initialised before hid_keyboard_init: the table holds
\* whatever the memory held
Init ==
    /\ keys \in SUBSET FewTableCodes
    /\ aoa = FALSE
    /\ ops = FALSE
    /\ call = [op |-> "none", event |-> NoEvent, ret |-> "void"]
    /\ hid_event = NoHidEvent
    /\ transport = <<>>
    /\ owner = "not allocated"
    /\ again = FALSE
    /\ phantom = FALSE

ProcessKeyStep(events, mallocOutcomes, pushOutcomes) ==
    \E event \in events, mallocOk \in mallocOutcomes, pushOk \in pushOutcomes :
        sc_key_processor_process_key(event, mallocOk, pushOk)
ProcessTextStep == sc_key_processor_process_text
InitStep == \E setupOk \in BOOLEAN : hid_keyboard_init(setupOk)
DestroyStep == \E unregisterOk \in BOOLEAN : hid_keyboard_destroy(unregisterOk)

\* every kind of event and every outcome of malloc and of the transport
Next ==
    \/ ProcessKeyStep(DispatchEvents, BOOLEAN, BOOLEAN)
    \/ ProcessTextStep
    \/ InitStep
    \/ DestroyStep

Spec == Init /\ [][Next]_vars

\* key events on enough keys to exceed the report, every send succeeding
NextKeys ==
    \/ ProcessKeyStep(KeyEvents, BOOLEAN, {TRUE})
    \/ ProcessTextStep
    \/ InitStep
    \/ DestroyStep

SpecKeys == Init /\ [][NextKeys]_vars

\* events under every combination of modifier flags, malloc and every send
\* succeeding
NextMods ==
    \/ ProcessKeyStep(ModEvents, {TRUE}, {TRUE})
    \/ ProcessTextStep
    \/ InitStep
    \/ DestroyStep

SpecMods == Init /\ [][NextMods]_vars

\* ------------------------------------------------------------------------
\* Vocabulary of the properties
\* ------------------------------------------------------------------------
\* the last call was process_key and its conversion built a report
Produced == call.op = "process_key" /\ hid_event.size = HID_KEYBOARD_EVENT_SIZE
\* the last call was process_key with an event that is not an auto-repeat
KeyCall == call.op = "process_key" /\ call.event.repeat = 0
\* bytes 2..7 of a report
Slots(buffer) == SubSeq(buffer, HID_KEYBOARD_INDEX_KEYS + 1, HID_KEYBOARD_EVENT_SIZE)
InTable(scancode) == scancode \in 0..(HID_KEYBOARD_KEYS - 1)
IsModifierCode(scancode) == scancode \in SDL_SCANCODE_LCTRL..SDL_SCANCODE_RGUI

RECURSIVE Ascending(_)
\* the elements of a set of numbers in strictly ascending order
Ascending(S) ==
    IF S = {} THEN << >>
    ELSE LET m == CHOOSE x \in S : \A y \in S : x <= y
         IN  <<m>> \o Ascending(S \ {m})

\* the key slots that list the set S of key codes, zero-padded
ZeroPadded(S) ==
    Ascending(S) \o [j \in 1..(HID_KEYBOARD_MAX_KEYS - Cardinality(S)) |-> 0]
\* the key slots of the phantom state
AllRollOver == [j \in 1..HID_KEYBOARD_MAX_KEYS |-> HID_KEYBOARD_ERROR_ROLL_OVER]
\* the table after event e was applied to table k
ExpectedKeys(k, e) ==
    {i \in 0..(HID_KEYBOARD_KEYS - 1) :
        IF i = e.scancode THEN e.type = "SDL_KEYDOWN" ELSE i \in k}
\* the reports the last call handed to the transport
Pushes == SelectSeq(transport, LAMBDA c : c.fn = "aoa_push_hid_event")

\* ------------------------------------------------------------------------
\* C1: whenever a report is built while at most 6 table keys are pressed (so
\* in particular when at most 6 distinct keys were ever pressed), its key slots
\* are the pressed key codes in strictly ascending order followed by zeros,
\* and no two slots hold the same non-zero code.
\* ------------------------------------------------------------------------
C1_AscendingZeroPadded ==
    (Produced /\ Cardinality(keys) <= HID_KEYBOARD_MAX_KEYS) =>
        /\ Slots(hid_event.buffer) = ZeroPadded(keys)
        /\ \A i, j \in 1..HID_KEYBOARD_MAX_KEYS :
              (i # j /\ Slots(hid_event.buffer)[i] # 0)
                  => Slots(hid_event.buffer)[i] # Slots(hid_event.buffer)[j]

\* six keys are held and the key pressed last has the lowest code: it is
\* reported in the first slot
C1_Witness ==
    /\ Produced
    /\ ~again
    /\ call.event.type = "SDL_KEYDOWN"
    /\ call.event.scancode = 1
    /\ keys = {1, SDL_SCANCODE_A, 5, 6, 7, HID_KEYBOARD_KEYS - 1}
    /\ hid_event.buffer = <<0, 0, 1, 4, 5, 6, 7, 101>>

\* ------------------------------------------------------------------------
\* C2: a report built while more than 6 table keys are pressed has the
\* roll-over byte in all 6 key slots, 0 in byte 1, and in byte 0 the mask of
\* the modifier flags of the event; with 7 keys and no flag it is
\* 00 00 01 01 01 01 01 01.
\* ------------------------------------------------------------------------
C2_RollOver ==
    (Produced /\ Cardinality(keys) > HID_KEYBOARD_MAX_KEYS) =>
        /\ Slots(hid_event.buffer) = AllRollOver
        /\ hid_event.buffer[2] = 0
        /\ hid_event.buffer[1] = sdl_keymod_to_hid_modifiers(call.event.mod)
        /\ call.event.mod = {} => hid_event.buffer = <<0, 0, 1, 1, 1, 1, 1, 1>>

\* the 7th key is pressed while the left-shift flag is set
C2_Witness ==
    /\ Produced
    /\ Cardinality(keys) = HID_KEYBOARD_MAX_KEYS + 1
    /\ call.event.type = "SDL_KEYDOWN"
    /\ call.event.scancode \in keys
    /\ call.event.mod = {"KMOD_LSHIFT"}
    /\ hid_event.buffer = <<2, 0, 1, 1, 1, 1, 1, 1>>

\* ------------------------------------------------------------------------
\* C3, as stated: an event of a modifier key that is not a repeat always
\* builds a report, whose key slots list the pressed keys.
\* ------------------------------------------------------------------------
C3_AsStated ==
    (KeyCall /\ IsModifierCode(call.event.scancode)) =>
        /\ Produced
        /\ Slots(hid_event.buffer) = ZeroPadded(keys)

\* C3, amended: an event of a modifier key that is not a repeat builds a
\* report and hands it to the transport whenever malloc succeeds; byte 0 is
\* the mask of the event's flags, and while at most 6 keys are pressed the key
\* slots list them.  The scenario: 'A' down gives 00 / A; left shift down with
\* the left-shift flag gives 02 / A; 'A' up with the flag gives 02 / nothing.
C3_ModifierEventReports ==
    /\ (KeyCall /\ IsModifierCode(call.event.scancode) /\ owner # "malloc failed") =>
          /\ Produced
          /\ Len(Pushes) = 1
          /\ hid_event.buffer[1] = sdl_keymod_to_hid_modifiers(call.event.mod)
          /\ Cardinality(keys) <= HID_KEYBOARD_MAX_KEYS
                => Slots(hid_event.buffer) = ZeroPadded(keys)
    /\ (/\ Produced
        /\ call.event = [type |-> "SDL_KEYDOWN", repeat |-> 0,
                         scancode |-> SDL_SCANCODE_A, mod |-> {}]
        /\ keys = {SDL_SCANCODE_A})
          => hid_event.buffer = <<0, 0, SDL_SCANCODE_A, 0, 0, 0, 0, 0>>
    /\ (/\ Produced
        /\ call.event = [type |-> "SDL_KEYDOWN", repeat |-> 0,
                         scancode |-> SDL_SCANCODE_LSHIFT, mod |-> {"KMOD_LSHIFT"}]
        /\ keys = {SDL_SCANCODE_A})
          => hid_event.buffer = <<2, 0, SDL_SCANCODE_A, 0, 0, 0, 0, 0>>
    /\ (/\ Produced
        /\ call.event = [type |-> "SDL_KEYUP", repeat |-> 0,
                         scancode |-> SDL_SCANCODE_A, mod |-> {"KMOD_LSHIFT"}]
        /\ keys = {})
          => hid_event.buffer = <<2, 0, 0, 0, 0, 0, 0, 0>>

\* left shift goes down while 'A' is held
C3_Witness ==
    /\ Produced
    /\ call.event = [type |-> "SDL_KEYDOWN", repeat |-> 0,
                     scancode |-> SDL_SCANCODE_LSHIFT, mod |-> {"KMOD_LSHIFT"}]
    /\ keys = {SDL_SCANCODE_A}
    /\ hid_event.buffer = <<2, 0, SDL_SCANCODE_A, 0, 0, 0, 0, 0>>
    /\ Len(Pushes) = 1

\* ------------------------------------------------------------------------
\* C4: a process_key call with the repeat flag set leaves the table as it was
\* and hands nothing to the transport.
\* ------------------------------------------------------------------------
C4_RepeatIgnored ==
    [][(call'.op = "process_key" /\ call'.event.repeat # 0)
          => (keys' = keys /\ transport' = << >>)]_vars

\* a repeated release of a key that is held: the key stays pressed
C4_Witness ==
    /\ call.op = "process_key"
    /\ call.event.repeat # 0
    /\ call.event.type = "SDL_KEYUP"
    /\ call.event.scancode \in keys
    /\ transport = << >>

\* ------------------------------------------------------------------------
\* C5: an event whose key code is neither in the table nor a modifier leaves
\* the table as it was, allocates no buffer and hands nothing to the
\* transport.
\* ------------------------------------------------------------------------
C5_UnsupportedIgnored ==
    [][(/\ call'.op = "process_key"
        /\ ~InTable(call'.event.scancode)
        /\ ~IsModifierCode(call'.event.scancode))
          => (/\ keys' = keys
              /\ owner' = "not allocated"
              /\ hid_event'.buffer = NULL
              /\ transport' = << >>)]_vars

\* the code just above the modifiers, pressed while keys are held
C5_Witness ==
    /\ KeyCall
    /\ call.event.scancode = SDL_SCANCODE_RGUI + 1
    /\ call.event.type = "SDL_KEYDOWN"
    /\ keys # {}
    /\ owner = "not allocated"

\* ------------------------------------------------------------------------
\* C6: a press of a table key processed a second time, right after the first
\* one built its report, leaves the table as it is and builds the same report
\* byte for byte; the key is counted once.
\* ------------------------------------------------------------------------
C6_PressIdempotent ==
    [][(/\ again'
        /\ call'.event.type = "SDL_KEYDOWN"
        /\ call'.event.repeat = 0
        /\ InTable(call'.event.scancode)
        /\ hid_event'.size = HID_KEYBOARD_EVENT_SIZE)
          => (/\ keys' = keys
              /\ hid_event'.buffer = hid_event.buffer
              /\ Cardinality(keys') <= HID_KEYBOARD_MAX_KEYS =>
                    Cardinality({i \in 1..Cardinality(keys') :
                        Slots(hid_event'.buffer)[i] = call'.event.scancode}) = 1)]_vars

\* the sixth key is pressed twice: it is still the sixth, not a seventh
C6_Witness ==
    /\ again
    /\ Produced
    /\ call.event.type = "SDL_KEYDOWN"
    /\ call.event.scancode = 7
    /\ keys = {0, 1, SDL_SCANCODE_A, 5, 6, 7}
    /\ hid_event.buffer = <<0, 0, 0, 1, 4, 5, 6, 7>>

\* ------------------------------------------------------------------------
\* C7, as stated: the release of a table key whose entry is false leaves the
\* table as it was, and its report lists the keys pressed before the event.
\* ------------------------------------------------------------------------
C7_AsStated ==
    [][(/\ call'.op = "process_key"
        /\ call'.event.repeat = 0
        /\ call'.event.type = "SDL_KEYUP"
        /\ InTable(call'.event.scancode)
        /\ call'.event.scancode \notin keys)
          => (/\ keys' = keys
              /\ hid_event'.size = HID_KEYBOARD_EVENT_SIZE
                    => Slots(hid_event'.buffer) = ZeroPadded(keys))]_vars

\* C7, amended: the release of a table key whose entry is false leaves the
\* table as it was; its report lists the keys pressed before the event when
\* they are at most 6, and is the roll-over report when they are more.
C7_ReleaseOfUnpressed ==
    [][(/\ call'.op = "process_key"
        /\ call'.event.repeat = 0
        /\ call'.event.type = "SDL_KEYUP"
        /\ InTable(call'.event.scancode)
        /\ call'.event.scancode \notin keys)
          => (/\ keys' = keys
              /\ hid_event'.size = HID_KEYBOARD_EVENT_SIZE
                    => Slots(hid_event'.buffer) =
                          IF Cardinality(keys) <= HID_KEYBOARD_MAX_KEYS
                          THEN ZeroPadded(keys) ELSE AllRollOver)]_vars

\* a release processed right after the same release built its report: the
\* entry was already false
C7_Witness ==
    /\ again
    /\ Produced
    /\ call.event.type = "SDL_KEYUP"
    /\ InTable(call.event.scancode)
    /\ keys = {SDL_SCANCODE_A, 5}
    /\ hid_event.buffer = <<0, 0, SDL_SCANCODE_A, 5, 0, 0, 0, 0>>

\* ------------------------------------------------------------------------
\* C8: a call hands at most one report to the transport; process_key hands
\* exactly one for an event that is no repeat, is supported and whose malloc
\* succeeds; init, destroy and process_text hand none.
\* ------------------------------------------------------------------------
C8_AtMostOneReport ==
    /\ Len(Pushes) <= 1
    /\ (/\ KeyCall
        /\ InTable(call.event.scancode) \/ IsModifierCode(call.event.scancode)
        /\ owner # "malloc failed")
          => (Len(Pushes) = 1 /\ Pushes[1].hid_event = hid_event /\ Produced)
    /\ call.op # "process_key" => Len(Pushes) = 0

\* a report was handed over, and the transport refused it
C8_Witness ==
    /\ KeyCall
    /\ Len(Pushes) = 1
    /\ owner = "nobody"

\* ------------------------------------------------------------------------
\* C9: when a call has returned, the buffer it allocated is owned by the
\* transport or has been freed: none is left allocated and owned by nobody.
\* ------------------------------------------------------------------------
C9_NoBufferLeftUnowned == owner # "nobody"

\* ------------------------------------------------------------------------
\* C10: a failed push leaves the table updated by the event, nothing is
\* pushed a second time, and the report of the next event that builds one is
\* the report of the true table, the dropped change included.
\* ------------------------------------------------------------------------
C10_SendFailureKeepsState ==
    [][/\ (call'.op = "process_key" /\ owner' = "nobody")
            => (/\ keys' = ExpectedKeys(keys, call'.event)
                /\ Len(transport') = 1)
       /\ (/\ owner = "nobody"
           /\ call'.op = "process_key"
           /\ hid_event'.size = HID_KEYBOARD_EVENT_SIZE)
            => (/\ keys' = ExpectedKeys(keys, call'.event)
                /\ transport' = <<PushCall(hid_event')>>
                /\ Slots(hid_event'.buffer) =
                      IF Cardinality(keys') <= HID_KEYBOARD_MAX_KEYS
                      THEN ZeroPadded(keys') ELSE AllRollOver)]_vars

\* the report of the press of a second key was dropped; the key is in the
\* table
C10_Witness ==
    /\ KeyCall
    /\ owner = "nobody"
    /\ call.event.type = "SDL_KEYDOWN"
    /\ keys = {SDL_SCANCODE_A, call.event.scancode}
    /\ call.event.scancode = 5

\* ------------------------------------------------------------------------
\* C11, as stated: init returns success exactly when aoa_setup_hid succeeds,
\* and once an init has failed no key event can be processed.
\* ------------------------------------------------------------------------
C11_AsStated ==
    [][/\ \A ok \in BOOLEAN :
             hid_keyboard_init(ok) => (call'.ret = "true" <=> ok)
       /\ (call.op = "init" /\ call.ret = "false") => call'.op # "process_key"]_vars

\* C11, amended: init returns success exactly when aoa_setup_hid succeeds; a
\* failed init leaves the operations pointer and the table as they were and
\* sends no report, a successful one installs the operations; as long as no
\* init has succeeded no key or text event is processed.  (After an earlier
\* successful init the operations stay installed through a failed one.)
C11_InitFailure ==
    [][/\ \A ok \in BOOLEAN :
             hid_keyboard_init(ok) => (call'.ret = "true" <=> ok)
       /\ (call'.op = "init" /\ call'.ret = "false")
             => (ops' = ops /\ keys' = keys /\ transport' = <<SetupCall>>)
       /\ (call'.op = "init" /\ call'.ret = "true") => ops'
       /\ ~ops => (/\ call'.op \notin {"process_key", "process_text"}
                   /\ call.op \notin {"process_key", "process_text"})]_vars

\* the first init of the component fails
C11_Witness ==
    /\ call.op = "init"
    /\ call.ret = "false"
    /\ ~ops
    /\ aoa
    /\ transport = <<SetupCall>>

\* ------------------------------------------------------------------------
\* C12: after a successful init every entry of the table is false, whatever
\* it held before, and the first report after it lists only the key of its
\* own event.
\* ------------------------------------------------------------------------
C12_InitResetsTable ==
    [][/\ (call'.op = "init" /\ call'.ret = "true") => keys' = {}
       /\ (/\ call.op = "init"
           /\ call.ret = "true"
           /\ call'.op = "process_key"
           /\ hid_event'.size = HID_KEYBOARD_EVENT_SIZE)
             => Slots(hid_event'.buffer) =
                   ZeroPadded(IF InTable(call'.event.scancode)
                                 /\ call'.event.type = "SDL_KEYDOWN"
                              THEN {call'.event.scancode} ELSE {})]_vars

\* a component that is in use (its operations are installed) has just been
\* initialised again
C12_Witness ==
    /\ call.op = "init"
    /\ call.ret = "true"
    /\ ops
    /\ keys = {}

\* ------------------------------------------------------------------------
\* C13: every report handed to the transport has size 8 and 8 bytes, byte 1
\* is 0, in roll-over reports too, and it carries the accessory id under
\* which init registers the descriptor.
\* ------------------------------------------------------------------------
C13_ReportLayout ==
    \A i \in 1..Len(transport) :
        /\ transport[i].fn = "aoa_push_hid_event" =>
              /\ transport[i].hid_event.size = 2 + HID_KEYBOARD_MAX_KEYS
              /\ Len(transport[i].hid_event.buffer) = 2 + HID_KEYBOARD_MAX_KEYS
              /\ transport[i].hid_event.buffer[2] = 0
              /\ transport[i].hid_event.from_accessory_id = SetupCall.accessory_id
        /\ transport[i].fn = "aoa_setup_hid" =>
              transport[i].accessory_id = HID_KEYBOARD_ACCESSORY_ID

\* a roll-over report is handed to the transport
C13_Witness ==
    /\ Len(Pushes) = 1
    /\ Cardinality(keys) > HID_KEYBOARD_MAX_KEYS
    /\ Slots(Pushes[1].hid_event.buffer) = AllRollOver
    /\ Pushes[1].hid_event.buffer[2] = 0
    /\ Pushes[1].hid_event.size = 8

\* the 63 bytes of the report descriptor
ExpectedDescriptor ==
    <<5, 1, 9, 6, 161, 1, 5, 7, 25, 224, 41, 231, 21, 0, 37, 1, 117, 1, 149, 8,
      129, 2, 117, 8, 149, 1, 129, 1, 5, 8, 25, 1, 41, 5, 117, 1, 149, 5, 145, 2,
      117, 3, 149, 1, 145, 1, 5, 7, 25, 0, 41, 101, 21, 0, 37, 101, 117, 8,
      149, 6, 129, 0, 192>>

\* ------------------------------------------------------------------------
\* C14: every init call passes the same 63-byte descriptor, with length 63
\* and the same accessory id, to the transport, once; no other call passes a
\* descriptor.
\* ------------------------------------------------------------------------
C14_DescriptorFixed ==
    /\ Len(ExpectedDescriptor) = 63
    /\ \A i \in 1..Len(transport) :
          transport[i].fn = "aoa_setup_hid" =>
              /\ transport[i].desc = ExpectedDescriptor
              /\ transport[i].size = 63
              /\ transport[i].accessory_id = 1
    /\ call.op = "init" =>
          (Len(transport) = 1 /\ transport[1].fn = "aoa_setup_hid")
    /\ call.op # "init" =>
          \A i \in 1..Len(transport) : transport[i].fn # "aoa_setup_hid"

\* init is called again on a component in use, and the registration fails
C14_Witness ==
    /\ call.op = "init"
    /\ call.ret = "false"
    /\ ops
    /\ keys # {}
    /\ transport[1].desc = ExpectedDescriptor
    /\ transport[1].size = 63

\* ------------------------------------------------------------------------
\* C15: after process_key has handled an event that is no repeat and whose
\* key code is in the table, the entry of the key code is the pressed flag of
\* the event, also when malloc failed and no report was built.
\* ------------------------------------------------------------------------
C15_TableFollowsEvent ==
    (KeyCall /\ InTable(call.event.scancode)) =>
        (call.event.scancode \in keys <=> call.event.type = "SDL_KEYDOWN")

\* bit b of the byte x
BitOf(x, b) == (x \div (2 ^ b)) % 2

\* ------------------------------------------------------------------------
\* C16: byte 0 of a report has bit b set exactly when the flags of the event
\* contain the flag of bit b (LCtrl, LShift, LAlt, LGUI, RCtrl, RShift, RAlt,
\* RGUI for b = 0..7), whatever the other flags, the table and the key of the
\* event.
\* ------------------------------------------------------------------------
C16_ModifierByte ==
    Produced =>
        \A b \in 0..7 :
            BitOf(hid_event.buffer[1], b) =
                IF ModifierFlags[b + 1] \in call.event.mod THEN 1 ELSE 0

\* the left shift key goes down while the flags name right alt and left
\* control only: byte 0 is 0x41, without the bit of left shift
C16_Witness ==
    /\ Produced
    /\ call.event.type = "SDL_KEYDOWN"
    /\ call.event.scancode = SDL_SCANCODE_LSHIFT
    /\ call.event.mod = {"KMOD_RALT", "KMOD_LCTRL"}
    /\ keys = {SDL_SCANCODE_A}
    /\ hid_event.buffer = <<65, 0, SDL_SCANCODE_A, 0, 0, 0, 0, 0>>

\* ------------------------------------------------------------------------
\* C17: a process_key call changes no table entry but the one of the key code
\* of its event, and none at all when that key code is outside the table; an
\* event of a modifier key (224..231) that is no repeat builds a report, when
\* malloc succeeds, and leaves the whole table as it was.
\* ------------------------------------------------------------------------
C17_OneEntryChanged ==
    [][call'.op = "process_key" =>
          /\ keys' \ {call'.event.scancode} = keys \ {call'.event.scancode}
          /\ keys' \subseteq 0..(HID_KEYBOARD_KEYS - 1)
          /\ ~InTable(call'.event.scancode) => keys' = keys
          /\ (/\ IsModifierCode(call'.event.scancode)
              /\ call'.event.repeat = 0
              /\ owner' # "malloc failed")
                 => /\ hid_event'.size = HID_KEYBOARD_EVENT_SIZE
                    /\ Slots(hid_event'.buffer) = ZeroPadded(keys)
                    /\ keys' = keys]_vars

\* the left shift key went down while two keys were held: a report was built
\* and the table still holds the two keys only
C17_Witness ==
    /\ KeyCall
    /\ call.event.type = "SDL_KEYDOWN"
    /\ call.event.scancode = SDL_SCANCODE_LSHIFT
    /\ call.event.mod = {"KMOD_LSHIFT"}
    /\ keys = {SDL_SCANCODE_A, 5}
    /\ hid_event.buffer = <<HID_KEYBOARD_MODIFIER_LEFT_SHIFT, 0, SDL_SCANCODE_A, 5, 0, 0, 0, 0>>

\* ------------------------------------------------------------------------
\* C18: a key slot of a report holds the roll-over sentinel 0x01 only if more
\* than 6 table entries were pressed when the report was built: while at most
\* 6 keys of the table range are pressed, no slot equals the sentinel.
\* ------------------------------------------------------------------------
C18_SentinelOnlyOnRollOver ==
    (Produced /\ Cardinality(keys) <= HID_KEYBOARD_MAX_KEYS) =>
        \A j \in 1..HID_KEYBOARD_MAX_KEYS :
            Slots(hid_event.buffer)[j] # HID_KEYBOARD_ERROR_ROLL_OVER

\* ------------------------------------------------------------------------
\* C19: roll-over is not sticky. When more than 6 table keys are pressed, the
\* last report built was a roll-over report, and the next event that builds a
\* report updates the table as ever; if that leaves at most 6 keys pressed
\* (the event is then a release), the report of this very event lists the
\* pressed key codes in ascending order, zero-padded, and is the one pushed;
\* so does every later report built while at most 6 keys are pressed.
\* ------------------------------------------------------------------------
C19_RollOverNotSticky ==
    [][(call'.op = "process_key" /\ hid_event'.size = HID_KEYBOARD_EVENT_SIZE) =>
          /\ Cardinality(keys) > HID_KEYBOARD_MAX_KEYS =>
                /\ phantom'
                /\ keys' = ExpectedKeys(keys, call'.event)
                /\ Cardinality(keys') <= HID_KEYBOARD_MAX_KEYS =>
                      /\ call'.event.type = "SDL_KEYUP"
                      /\ call'.event.scancode \in keys
          /\ Cardinality(keys') <= HID_KEYBOARD_MAX_KEYS =>
                /\ Slots(hid_event'.buffer) = ZeroPadded(keys')
                /\ Len(transport') = 1
                /\ transport'[1].fn = "aoa_push_hid_event"
                /\ transport'[1].hid_event.buffer = hid_event'.buffer
          /\ Cardinality(keys') > HID_KEYBOARD_MAX_KEYS =>
                Slots(hid_event'.buffer) = AllRollOver]_vars

\* the report before this call was a roll-over report, and the release of key
\* code 1 left six keys pressed: the report lists the six
C19_Witness ==
    /\ phantom
    /\ Produced
    /\ call.event.type = "SDL_KEYUP"
    /\ call.event.scancode = 1
    /\ keys = {SDL_SCANCODE_A, 5, 6, 7, 8, HID_KEYBOARD_KEYS - 1}
    /\ hid_event.buffer = <<0, 0, SDL_SCANCODE_A, 5, 6, 7, 8, HID_KEYBOARD_KEYS - 1>>
    /\ Pushes = <<PushCall(hid_event)>>

====
